---------------------------- MODULE Spec2Model ----------------------------
(***************************************************************************)
(* shunit: runs test scripts as child processes one after the other,       *)
(* captures their stdout and stderr line by line (run_script), rebuilds    *)
(* the text of the output (join_log_lines, join_and_sort) and emits a      *)
(* JUnit style report (main).                                              *)
(*                                                                         *)
(* Text is a sequence of one-character strings, a LogLine is the pair      *)
(* <<timestamp, text>>, an Option is <<>> (None) or <<x>> (Some(x)).       *)
(***************************************************************************)
EXTENDS Integers, Sequences, FiniteSets, TLC

\* ------------------------------------------------------------------ bounds
\* scripts on the command line
MaxScripts == 2
\* lines written by the children of one run, all scripts together
MaxWrites == 3
\* lines a pipe holds before a write to it blocks
PipeCap == 1
\* fragments in an input of the pure functions
MaxFrags == 3
\* timestamps 1..MaxTs in an input of the pure functions
MaxTs == 3

\* ------------------------------------------------------------ text, Option
NL == "\n"
\* a byte that is not valid UTF-8
BadByte == "#"
None == <<>>
Some(x) == <<x>>
unwrap(o) == o[1]
unwrap_or(o, d) == IF o = None THEN d ELSE o[1]

ends_with(s, c) == Len(s) > 0 /\ s[Len(s)] = c

RECURSIVE concat(_)
\* [String].concat()
concat(ss) == IF ss = <<>> THEN <<>> ELSE Head(ss) \o concat(Tail(ss))

\* the texts of a sequence of LogLines (map(|line| line.1))
Texts(lines) == [i \in 1..Len(lines) |-> lines[i][2]]

\* ---------------------------------------------------------- join_log_lines
FlushCond_only_newline(message, index, len) == ends_with(message, NL)

FlushCond_only_last(message, index, len) == index = len

\* the flush test of the loop body; index counts from 1 here
FlushCond(message, index, len) == ends_with(message, NL) \/ index = len

RECURSIVE JoinLoop(_, _, _, _, _)
JoinLoop(messages, index, joined_messages, line, first_ts) ==
    IF index > Len(messages) THEN joined_messages
    ELSE LET ts == messages[index][1]
             message == messages[index][2]
             line1 == line \o message
             first1 == IF first_ts = None THEN Some(ts) ELSE first_ts
         IN IF FlushCond(message, index, Len(messages))
            THEN JoinLoop(messages, index + 1,
                          Append(joined_messages, <<unwrap(first1), line1>>),
                          <<>>, None)
            ELSE JoinLoop(messages, index + 1, joined_messages, line1, first1)

join_log_lines(messages) == JoinLoop(messages, 1, <<>>, <<>>, None)

\* ----------------------------------------------------------- join_and_sort
SortedInsert_before_equal(sorted, x) ==
    LET p == Cardinality({i \in 1..Len(sorted) : sorted[i][1] < x[1]})
    IN SubSeq(sorted, 1, p) \o <<x>> \o SubSeq(sorted, p + 1, Len(sorted))

\* stable insertion of x by timestamp: after every element that is not later
SortedInsert(sorted, x) ==
    LET p == Cardinality({i \in 1..Len(sorted) : sorted[i][1] <= x[1]})
    IN SubSeq(sorted, 1, p) \o <<x>> \o SubSeq(sorted, p + 1, Len(sorted))

RECURSIVE SortFrom(_, _, _)
SortFrom(v, i, sorted) ==
    IF i > Len(v) THEN sorted ELSE SortFrom(v, i + 1, SortedInsert(sorted, v[i]))

\* slice::sort_by(|a, b| a.0.cmp(&b.0)): a stable sort by timestamp
sort_by_ts(v) == SortFrom(v, 1, <<>>)

join_and_sort(stdout, stderr) == sort_by_ts(stdout \o stderr)


\* ------------------------------------------------- ExitStatus and messages
\* std::process::ExitStatus: an exit code, or termination by a signal
ExitStatuses ==
    {[signal |-> FALSE, code |-> c] : c \in {0, 7}} \cup {[signal |-> TRUE, code |-> 0]}

success_ignores_signal(es) == es.code = 0

\* ExitStatus::success()
success(es) == ~es.signal /\ es.code = 0

\* ExitStatus::code(): None when the process was terminated by a signal
code(es) == IF es.signal THEN None ELSE Some(es.code)

Digits == <<"0", "1", "2", "3", "4", "5", "6", "7", "8", "9">>

RECURSIVE FormatNat(_)
FormatNat(n) ==
    IF n < 10 THEN <<Digits[n + 1]>>
    ELSE FormatNat(n \div 10) \o <<Digits[(n % 10) + 1]>>

\* Display of an i32, as format!("{}") renders it
FormatInt(n) == IF n < 0 THEN <<"-">> \o FormatNat(-n) ELSE FormatNat(n)

\* format!("Non-zero exit-code: {}", exit_code.code().unwrap_or(-1))
ExitMessage(es) == <<"Non-zero exit-code: ">> \o FormatInt(unwrap_or(code(es), -1))

\* --------------------------------------------------------- the line reader
valid_utf8(text) == \A i \in 1..Len(text) : text[i] # BadByte

\* Lines::next_line returns the line without its terminator
strip_newline(text) ==
    IF ends_with(text, NL) THEN SubSeq(text, 1, Len(text) - 1) ELSE text

\* the text of the n-th line the children of a run write
LineChars == <<"a", "b", "c", "d", "e", "f", "g", "h">>
LineChar(n) == LineChars[((n - 1) % Len(LineChars)) + 1]

Streams == {"stdout", "stderr"}

\* what a script path is: no such file, a file that cannot be executed,
\* an executable script
Kinds == {"missing", "noexec", "run"}

ScriptLists == UNION {[1..n -> Kinds] : n \in 0..MaxScripts}

\* ------------------------------------------------------------------- state
VARIABLES
    scripts,          \* opt.scripts, each path by what the file system holds
    pc,               \* where main is: start, for, rd_out, rd_err, wait, exited
    idx,              \* position of the for loop in scripts
    tool_status,      \* running, ok (main returned Ok), err (main returned Err)
    report,           \* the report written, an Option
    clock,            \* the wall clock
    start,            \* time::Instant::now() of main
    duration,         \* start.elapsed() of the current iteration
    error_count, failure_count,
    stdout_messages, stderr_messages, testcases,
    now,              \* run_script: now of the current loop iteration
    stdout_line, stderr_line,
    stdout_vector, stderr_vector,
    child_alive,      \* the child of the current script runs
    child_pending,    \* the write the child is blocked in, an Option
    child_status,     \* its exit status once it has exited, an Option
    pipe,             \* the lines in each pipe, not yet read
    written,          \* the lines the current child has written to each stream
    nwrites,          \* lines the children have written or are writing
    term,             \* what the tool has echoed to its own stdout and stderr
    orphans,          \* children still running whose capture was abandoned
    handle,           \* the task that waits for the child: none, pending, ready
    handle_output,    \* the exit status the task has obtained, an Option
    wrote_at,         \* the clock at each write of the current child
    messages,         \* the input of join_log_lines
    joined,           \* its output
    rejoined,         \* the output of join_log_lines on joined
    messages2,        \* join_and_sort: stderr, with messages as stdout
    merged,           \* the output of join_and_sort
    fn_pc             \* input, joined, rejoined, merge_input, merged

mainVars == <<scripts, pc, idx, tool_status, report, start, duration, error_count,
              failure_count, stdout_messages, stderr_messages, testcases>>
captureVars == <<now, stdout_line, stderr_line, stdout_vector, stderr_vector, term>>
childVars == <<child_alive, child_pending, child_status, pipe, written, nwrites,
               orphans, handle, handle_output, wrote_at>>
fnVars == <<messages, joined, rejoined, messages2, merged, fn_pc>>
vars == <<mainVars, captureVars, childVars, clock, fnVars>>

EmptyStreams == [s \in Streams |-> <<>>]

FnIdle ==
    /\ messages = <<>> /\ joined = <<>> /\ rejoined = <<>>
    /\ messages2 = <<>> /\ merged = <<>> /\ fn_pc = "idle"

MainInit ==
    /\ pc = "start" /\ idx = 1 /\ tool_status = "running" /\ report = None
    /\ clock = 0 /\ start = 0 /\ duration = 0
    /\ error_count = 0 /\ failure_count = 0
    /\ stdout_messages = <<>> /\ stderr_messages = <<>> /\ testcases = <<>>
    /\ now = 0 /\ stdout_line = None /\ stderr_line = None
    /\ stdout_vector = <<>> /\ stderr_vector = <<>>
    /\ child_alive = FALSE /\ child_pending = None
    /\ child_status = None
    /\ pipe = EmptyStreams /\ written = EmptyStreams /\ nwrites = 0
    /\ term = EmptyStreams /\ orphans = 0
    /\ handle = "none" /\ handle_output = None /\ wrote_at = EmptyStreams

Init == scripts \in ScriptLists /\ MainInit /\ FnIdle

\* ------------------------------------------------------ main: match result
\* ScriptResult: Ok((exit_code, stdout, stderr)) or Err(error)
OkResult(es, out, err) ==
    [ok |-> TRUE, exit_code |-> es, stdout |-> out, stderr |-> err, error |-> ""]
ErrResult(msg) ==
    [ok |-> FALSE, exit_code |-> [signal |-> FALSE, code |-> 0], stdout |-> <<>>,
     stderr |-> <<>>, error |-> msg]

\* the body of an "Assertion failed": each stream joined, then the two merged
FailureBody(stdout, stderr) ==
    concat(Texts(join_and_sort(join_log_lines(stdout), join_log_lines(stderr))))

\* the value of `error` for a result
TestErrorOf(result) ==
    IF result.ok
    THEN IF success(result.exit_code) THEN None
         ELSE Some([message |-> ExitMessage(result.exit_code),
                    error_type |-> "Assertion failed",
                    body |-> FailureBody(result.stdout, result.stderr)])
    ELSE Some([message |-> <<result.error>>, error_type |-> "IO error", body |-> <<>>])

FinishScript_miscounts(result, time) ==
    /\ stdout_messages' =
           IF result.ok THEN stdout_messages \o result.stdout ELSE stdout_messages
    /\ stderr_messages' =
           IF result.ok THEN stderr_messages \o result.stderr ELSE stderr_messages
    /\ failure_count' =
           IF result.ok /\ ~success(result.exit_code) THEN failure_count + 1
           ELSE failure_count
    /\ error_count' =
           IF result.ok /\ success(result.exit_code) THEN error_count
           ELSE error_count + 1
    /\ testcases' = Append(testcases, [classname |-> idx, name |-> idx, time |-> time,
                                       error |-> TestErrorOf(result)])
    /\ idx' = idx + 1
    /\ pc' = "for"

\* the rest of the loop body of main once run_script has returned: the counters,
\* the pass-through text and the test case
FinishScript(result, time) ==
    /\ stdout_messages' =
           IF result.ok THEN stdout_messages \o result.stdout ELSE stdout_messages
    /\ stderr_messages' =
           IF result.ok THEN stderr_messages \o result.stderr ELSE stderr_messages
    /\ failure_count' =
           IF result.ok /\ ~success(result.exit_code) THEN failure_count + 1
           ELSE failure_count
    /\ error_count' = IF result.ok THEN error_count ELSE error_count + 1
    /\ testcases' = Append(testcases, [classname |-> idx, name |-> idx, time |-> time,
                                       error |-> TestErrorOf(result)])
    /\ idx' = idx + 1
    /\ pc' = "for"

\* ------------------------------------------------------------------- main
MainStart_no_early_return ==
    /\ pc = "start"
    /\ pc' = "for" /\ tool_status' = tool_status /\ start' = clock
    /\ UNCHANGED <<scripts, idx, report, duration, error_count, failure_count,
                   stdout_messages, stderr_messages, testcases>>
    /\ UNCHANGED <<captureVars, childVars, clock, fnVars>>

\* the start of main up to the for loop; no scripts: return Ok(())
MainStart ==
    /\ pc = "start"
    /\ IF scripts = <<>>
       THEN pc' = "exited" /\ tool_status' = "ok" /\ start' = start
       ELSE pc' = "for" /\ tool_status' = tool_status /\ start' = clock
    /\ UNCHANGED <<scripts, idx, report, duration, error_count, failure_count,
                   stdout_messages, stderr_messages, testcases>>
    /\ UNCHANGED <<captureVars, childVars, clock, fnVars>>

\* fs::canonicalize(&name)? fails: main returns the error
CanonicalizeFail ==
    /\ pc = "for" /\ idx <= Len(scripts) /\ scripts[idx] = "missing"
    /\ pc' = "exited" /\ tool_status' = "err"
    /\ UNCHANGED <<scripts, idx, report, start, duration, error_count, failure_count,
                   stdout_messages, stderr_messages, testcases>>
    /\ UNCHANGED <<captureVars, childVars, clock, fnVars>>

\* run_script: spawn()? fails, and main records the error
SpawnFail ==
    /\ pc = "for" /\ idx <= Len(scripts) /\ scripts[idx] = "noexec"
    /\ duration' = clock - start
    /\ FinishScript(ErrResult("Permission denied (os error 13)"), duration')
    /\ UNCHANGED <<scripts, tool_status, report, start>>
    /\ UNCHANGED <<captureVars, childVars, clock, fnVars>>

\* run_script up to the first read: the child runs, both pipes are open
Spawn ==
    /\ pc = "for" /\ idx <= Len(scripts) /\ scripts[idx] = "run"
    /\ duration' = clock - start
    /\ clock' = clock + 1
    /\ child_alive' = TRUE /\ child_pending' = None /\ child_status' = None
    /\ pipe' = EmptyStreams /\ written' = EmptyStreams /\ wrote_at' = EmptyStreams
    /\ handle' = "pending" /\ handle_output' = None
    /\ stdout_vector' = <<>> /\ stderr_vector' = <<>>
    /\ stdout_line' = None /\ stderr_line' = None
    /\ now' = clock'
    /\ pc' = "rd_out"
    /\ UNCHANGED <<scripts, idx, tool_status, report, start, error_count, failure_count,
                   stdout_messages, stderr_messages, testcases>>
    /\ UNCHANGED <<nwrites, orphans, term, fnVars>>

\* the for loop is over: the report is built and written, main returns Ok(())
Report ==
    /\ pc = "for" /\ idx > Len(scripts)
    /\ report' = Some([tests |-> Len(scripts), errors |-> error_count,
                       failures |-> failure_count, time |-> clock - start,
                       testcases |-> testcases,
                       system_out |-> concat(Texts(stdout_messages)),
                       system_err |-> concat(Texts(stderr_messages))])
    /\ pc' = "exited" /\ tool_status' = "ok"
    /\ UNCHANGED <<scripts, idx, start, duration, error_count, failure_count,
                   stdout_messages, stderr_messages, testcases>>
    /\ UNCHANGED <<captureVars, childVars, clock, fnVars>>

\* ------------------------------------------------------------- run_script
\* a stream is at end-of-stream: the child has exited and its pipe is empty
AtEof(s) == ~child_alive /\ pipe[s] = <<>>

\* next_line can return: a line is in the pipe, or the stream is at its end
Readable(s) == pipe[s] # <<>> \/ AtEof(s)

LoopBreak_either(ol, el) == ol = None \/ el = None

\* if stdout_line == None && stderr_line == None { break; }
LoopBreak(ol, el) == ol = None /\ el = None

push_front(vector, line) ==
    IF line # None THEN <<<<now, unwrap(line)>>>> \o vector ELSE vector

\* if let Some(line) = line { vector.push(LogLine(now, line)) }
push(vector, line) ==
    IF line # None THEN Append(vector, <<now, unwrap(line)>>) ELSE vector

ReturnErr_partial(msg) ==
    /\ FinishScript(OkResult([signal |-> TRUE, code |-> 0], stdout_vector,
                             stderr_vector), duration)
    /\ orphans' = IF child_alive THEN orphans + 1 ELSE orphans
    /\ child_alive' = FALSE /\ child_pending' = None
    /\ pipe' = EmptyStreams
    /\ handle' = "none" /\ handle_output' = None
    /\ stdout_line' = None /\ stderr_line' = None
    /\ UNCHANGED <<scripts, tool_status, report, start, duration>>
    /\ UNCHANGED <<now, stdout_vector, stderr_vector, term>>
    /\ UNCHANGED <<child_status, written, wrote_at, nwrites, clock, fnVars>>

\* a `?` of run_script returns the error to main; the pipes are dropped and the
\* child, if it still runs, runs on unobserved
ReturnErr(msg) ==
    /\ FinishScript(ErrResult(msg), duration)
    /\ orphans' = IF child_alive THEN orphans + 1 ELSE orphans
    /\ child_alive' = FALSE /\ child_pending' = None
    /\ pipe' = EmptyStreams
    /\ handle' = "none" /\ handle_output' = None
    /\ stdout_line' = None /\ stderr_line' = None
    /\ UNCHANGED <<scripts, tool_status, report, start, duration>>
    /\ UNCHANGED <<now, stdout_vector, stderr_vector, term>>
    /\ UNCHANGED <<child_status, written, wrote_at, nwrites, clock, fnVars>>

\* let stdout_line = stdout.next_line().await?;
ReadStdout ==
    /\ pc = "rd_out"
    /\ Readable("stdout")
    /\ IF pipe.stdout # <<>> /\ ~valid_utf8(Head(pipe.stdout))
       THEN ReturnErr("stream did not contain valid UTF-8")
       ELSE /\ IF pipe.stdout # <<>>
               THEN /\ stdout_line' = Some(strip_newline(Head(pipe.stdout)))
                    /\ pipe' = [pipe EXCEPT !.stdout = Tail(@)]
               ELSE /\ stdout_line' = None
                    /\ pipe' = pipe
            /\ pc' = "rd_err"
            /\ UNCHANGED <<scripts, idx, tool_status, report, start, duration,
                           error_count, failure_count, stdout_messages,
                           stderr_messages, testcases>>
            /\ UNCHANGED <<now, stderr_line, stdout_vector, stderr_vector, term>>
            /\ UNCHANGED <<child_alive, child_pending, child_status, written,
                           nwrites, orphans, handle, handle_output, wrote_at,
                           clock, fnVars>>

\* let stderr_line = stderr.next_line().await?; and the rest of the loop body,
\* up to the next await
ReadStderr ==
    /\ pc = "rd_err"
    /\ Readable("stderr")
    /\ IF pipe.stderr # <<>> /\ ~valid_utf8(Head(pipe.stderr))
       THEN ReturnErr("stream did not contain valid UTF-8")
       ELSE LET el == IF pipe.stderr # <<>>
                      THEN Some(strip_newline(Head(pipe.stderr))) ELSE None
                ol == stdout_line
            IN /\ pipe' = IF pipe.stderr # <<>>
                          THEN [pipe EXCEPT !.stderr = Tail(@)] ELSE pipe
               /\ IF LoopBreak(ol, el)
                  THEN /\ pc' = "wait"
                       /\ UNCHANGED <<stdout_vector, stderr_vector, term, now>>
                  ELSE /\ pc' = "rd_out"
                       /\ stdout_vector' = push(stdout_vector, ol)
                       /\ stderr_vector' = push(stderr_vector, el)
                       /\ term' =
                              [stdout |-> IF ol # None
                                          THEN Append(term.stdout, unwrap(ol) \o <<NL>>)
                                          ELSE term.stdout,
                               stderr |-> IF el # None
                                          THEN Append(term.stderr, unwrap(el) \o <<NL>>)
                                          ELSE term.stderr]
                       /\ now' = clock
               /\ stdout_line' = None /\ stderr_line' = None
               /\ UNCHANGED <<scripts, idx, tool_status, report, start, duration,
                              error_count, failure_count, stdout_messages,
                              stderr_messages, testcases>>
               /\ UNCHANGED <<child_alive, child_pending, child_status, written,
                              nwrites, orphans, handle, handle_output, wrote_at,
                              clock, fnVars>>

AwaitExit_no_wait ==
    /\ pc = "wait"
    /\ FinishScript(OkResult([signal |-> FALSE, code |-> 0], stdout_vector,
                             stderr_vector), duration)
    /\ UNCHANGED <<scripts, tool_status, report, start, duration>>
    /\ UNCHANGED <<captureVars, childVars, clock, fnVars>>

\* let exit_code = handle.await??; Ok((exit_code, stdout_vector, stderr_vector)),
\* the vectors stay as the record of what this script's capture returned
AwaitExit ==
    /\ pc = "wait"
    /\ handle = "ready"
    /\ FinishScript(OkResult(unwrap(handle_output), stdout_vector, stderr_vector),
                    duration)
    /\ UNCHANGED <<scripts, tool_status, report, start, duration>>
    /\ UNCHANGED <<captureVars, childVars, clock, fnVars>>

\* -------------------------------------------------------------- the child
\* the child writes a line to a stream, or blocks in the write when the pipe
\* is full
ChildWrite(s, bad) ==
    /\ child_alive /\ child_pending = None
    /\ nwrites < MaxWrites
    /\ nwrites' = nwrites + 1
    /\ LET text == <<IF bad THEN BadByte ELSE LineChar(nwrites'), NL>>
       IN IF Len(pipe[s]) < PipeCap
          THEN /\ pipe' = [pipe EXCEPT ![s] = Append(@, text)]
               /\ written' = [written EXCEPT ![s] = Append(@, text)]
               /\ clock' = clock + 1
               /\ wrote_at' = [wrote_at EXCEPT ![s] = Append(@, clock')]
               /\ child_pending' = None
          ELSE /\ child_pending' = Some(<<s, text>>)
               /\ UNCHANGED <<pipe, written, wrote_at, clock>>
    /\ UNCHANGED <<mainVars, captureVars, child_alive, child_status, orphans, handle,
                   handle_output, fnVars>>

\* the pipe has room again: the blocked write completes
ChildUnblock ==
    /\ child_alive /\ child_pending # None
    /\ LET s == unwrap(child_pending)[1]
           text == unwrap(child_pending)[2]
       IN /\ Len(pipe[s]) < PipeCap
          /\ pipe' = [pipe EXCEPT ![s] = Append(@, text)]
          /\ written' = [written EXCEPT ![s] = Append(@, text)]
          /\ wrote_at' = [wrote_at EXCEPT ![s] = Append(@, clock + 1)]
    /\ clock' = clock + 1
    /\ child_pending' = None
    /\ UNCHANGED <<mainVars, captureVars, child_alive, child_status, nwrites, orphans,
                   handle, handle_output, fnVars>>

\* the child exits; the write ends of both pipes close
ChildExit(es) ==
    /\ child_alive /\ child_pending = None
    /\ child_alive' = FALSE
    /\ child_status' = Some(es)
    /\ clock' = clock + 1
    /\ UNCHANGED <<mainVars, captureVars, child_pending, pipe, written, nwrites,
                   orphans, handle, handle_output, wrote_at, fnVars>>

\* a child whose capture was abandoned exits
OrphanExit ==
    /\ orphans > 0
    /\ orphans' = orphans - 1
    /\ UNCHANGED <<mainVars, captureVars, child_alive, child_pending, child_status,
                   pipe, written, nwrites, handle, handle_output, wrote_at, clock,
                   fnVars>>

\* let handle = tokio::spawn(async move { child.wait().await }): the task,
\* spawned before the loop, obtains the exit status once the child has exited
WaitTask ==
    /\ handle = "pending"
    /\ ~child_alive /\ child_status # None
    /\ handle' = "ready"
    /\ handle_output' = child_status
    /\ UNCHANGED <<mainVars, captureVars, child_alive, child_pending, child_status,
                   pipe, written, nwrites, orphans, wrote_at, clock, fnVars>>

Next ==
    \/ MainStart
    \/ CanonicalizeFail
    \/ SpawnFail
    \/ Spawn
    \/ Report
    \/ ReadStdout
    \/ ReadStderr
    \/ AwaitExit
    \/ \E s \in Streams, bad \in BOOLEAN : ChildWrite(s, bad)
    \/ ChildUnblock
    \/ \E es \in ExitStatuses : ChildExit(es)
    \/ OrphanExit
    \/ WaitTask

Spec == Init /\ [][Next]_vars

\* ------------------------------------------- the pure functions on their own
\* fragment texts: partial lines, whole lines, an empty line, an empty fragment
FragTexts == {<<"A">>, <<"B", NL>>, <<"C">>, <<NL>>, <<>>}

\* sequences of at most MaxFrags fragments, timestamps ascending as in a
\* captured vector
FragSeqs ==
    UNION {{m \in [1..n -> (1..MaxTs) \X FragTexts] :
               \A i \in 1..(n - 1) : m[i][1] <= m[i + 1][1]} : n \in 0..MaxFrags}

\* the inputs of join_and_sort: at most MaxFrags fragments a stream, in any
\* order of timestamps, the text of a fragment naming its stream and position
MergeSeqs(tag) ==
    UNION {{[i \in 1..n |-> <<ts[i], <<tag, Digits[i + 1]>>>>] : ts \in [1..n -> 1..MaxTs]} :
              n \in 0..MaxFrags}

InitFn ==
    /\ scripts = <<>> /\ MainInit
    /\ joined = <<>> /\ rejoined = <<>> /\ merged = <<>>
    /\ \/ messages \in FragSeqs /\ messages2 = <<>> /\ fn_pc = "input"
       \/ /\ messages \in MergeSeqs("x") /\ messages2 \in MergeSeqs("y")
          /\ fn_pc = "merge_input"

ApplyJoin ==
    /\ fn_pc = "input"
    /\ joined' = join_log_lines(messages)
    /\ fn_pc' = "joined"
    /\ UNCHANGED <<mainVars, captureVars, childVars, clock, messages, rejoined,
                   messages2, merged>>

ApplyJoinAgain ==
    /\ fn_pc = "joined"
    /\ rejoined' = join_log_lines(joined)
    /\ fn_pc' = "rejoined"
    /\ UNCHANGED <<mainVars, captureVars, childVars, clock, messages, joined,
                   messages2, merged>>

ApplyMerge ==
    /\ fn_pc = "merge_input"
    /\ merged' = join_and_sort(messages, messages2)
    /\ fn_pc' = "merged"
    /\ UNCHANGED <<mainVars, captureVars, childVars, clock, messages, joined,
                   rejoined, messages2>>

NextFn == ApplyJoin \/ ApplyJoinAgain \/ ApplyMerge

SpecFn == InitFn /\ [][NextFn]_vars

\* =================================================================== claims
\* the script whose iteration of the for loop ended last, and its test case
LastDone == idx - 1
HasLast == pc \in {"for", "exited"} /\ idx > 1 /\ Len(testcases) = idx - 1
LastCase == testcases[LastDone]
HasInvalid(w) == \E s \in Streams : \E i \in 1..Len(w[s]) : ~valid_utf8(w[s][i])

\* the capture loop waits on a stream that is open and silent
WaitsOn(s) ==
    /\ \/ (s = "stdout" /\ pc = "rd_out")
       \/ (s = "stderr" /\ pc = "rd_err")
    /\ ~Readable(s)

\* C1: the reads proceed independently: a line that is available on one
\* stream (in its pipe, or read and not yet echoed and appended) is captured
\* without the capture first waiting for the other stream, which is open and
\* silent, to deliver a line or to close.
C1_IndependentCapture ==
    /\ pipe.stderr # <<>> => ~WaitsOn("stdout")
    /\ (pipe.stdout # <<>> \/ stdout_line # None) => ~WaitsOn("stderr")

\* C2: with bounded pipes there is no deadlock: the child is never blocked
\* in a write to a full pipe while the capture loop waits on the other
\* stream, so run_script returns for every child.
C2_NoPipeDeadlock ==
    ~(/\ child_alive /\ child_pending # None
      /\ Len(pipe[unwrap(child_pending)[1]]) >= PipeCap
      /\ \E s \in Streams : s # unwrap(child_pending)[1] /\ WaitsOn(s))

\* C3: when the tool has terminated every script of the list has its own
\* test case, and the test case of a script that cannot be resolved or
\* cannot be spawned has the failure kind "IO error": the run is not aborted.
C3_SpawnFailureIsolated ==
    pc = "exited" =>
        /\ Len(testcases) = Len(scripts)
        /\ \A i \in 1..Len(scripts) :
               scripts[i] \in {"missing", "noexec"} =>
                   /\ testcases[i].error # None
                   /\ unwrap(testcases[i].error).error_type = "IO error"

\* C4: whatever the outcomes of the scripts, the tool terminates with exit
\* status zero, having emitted the report.
C4_ToolExitsZero ==
    pc = "exited" => tool_status = "ok" /\ (scripts # <<>> => report # None)

\* C5: the body of an "Assertion failed" failure is the concatenation of the
\* texts of join(merge(stdout fragments, stderr fragments)): merged first,
\* joined second.
C5_BodyIsJoinOfMerge ==
    (HasLast /\ LastCase.error # None
        /\ unwrap(LastCase.error).error_type = "Assertion failed") =>
        unwrap(LastCase.error).body =
            concat(Texts(join_log_lines(join_and_sort(stdout_vector, stderr_vector))))

\* what next_line makes of the lines written to a stream
ReadTexts(w) == [i \in 1..Len(w) |-> strip_newline(w[i])]

\* C6: the capture loop has ended only where both streams are at
\* end-of-stream, and then every line written to either stream has been
\* captured, in order, and nothing else: a stream that ended first added no
\* fragment and did not end the capture of the other.
C6_LoopEndsAtBothEof ==
    pc = "wait" =>
        /\ AtEof("stdout") /\ AtEof("stderr")
        /\ Texts(stdout_vector) = ReadTexts(written.stdout)
        /\ Texts(stderr_vector) = ReadTexts(written.stderr)

\* C6 witness: the loop has ended and stdout was at end-of-stream in an
\* iteration in which stderr still delivered a line
C6_Witness ==
    /\ pc = "wait"
    /\ Len(stdout_vector) >= 1
    /\ Len(stderr_vector) > Len(stdout_vector)

\* a non-zero or abnormal exit: a code other than 0, or a signal
BadExit(es) == es.signal \/ es.code # 0

\* C7 as stated: a test case has a failure iff its script could not be
\* spawned or its process exited with a status that is not success.
C7_FailureIffBadExitOrNoSpawn ==
    HasLast =>
        (LastCase.error # None <=>
            \/ scripts[LastDone] = "noexec"
            \/ /\ scripts[LastDone] = "run"
               /\ child_status # None
               /\ BadExit(unwrap(child_status)))

\* C7 amended: a test case has a failure iff its script could not be
\* spawned, or a read error ended its capture (a line that is not UTF-8), or
\* its process exited with a status that is not success.
C7_FailureIffErrorOrBadExit ==
    HasLast =>
        (LastCase.error # None <=>
            \/ scripts[LastDone] = "noexec"
            \/ /\ scripts[LastDone] = "run"
               /\ \/ HasInvalid(written)
                  \/ (child_status # None /\ BadExit(unwrap(child_status))))

\* C7 witness: a script that was terminated by a signal has a failure, after
\* a script that exited 0 and has none
C7_Witness ==
    /\ HasLast /\ idx = 3
    /\ scripts[LastDone] = "run" /\ ~HasInvalid(written)
    /\ child_status # None /\ unwrap(child_status).signal
    /\ LastCase.error # None
    /\ testcases[1].error = None

\* C8: a script that exits with a non-zero code c gets "Assertion failed"
\* with the message "Non-zero exit-code: c", a script that cannot be spawned
\* gets "IO error" with the error text and an empty body, a script that
\* exits 0 gets no failure; every script of the list gets its test case.
C8_OutcomeClassification ==
    /\ pc = "exited" => Len(testcases) = Len(scripts)
    /\ (HasLast /\ scripts[LastDone] = "noexec") =>
           /\ LastCase.error # None
           /\ unwrap(LastCase.error).error_type = "IO error"
           /\ unwrap(LastCase.error).message # <<>>
           /\ unwrap(LastCase.error).body = <<>>
    /\ (HasLast /\ scripts[LastDone] = "run" /\ child_status # None) =>
           LET es == unwrap(child_status)
           IN /\ (~es.signal /\ es.code = 0) => LastCase.error = None
              /\ (~es.signal /\ es.code = 7) =>
                     /\ LastCase.error # None
                     /\ unwrap(LastCase.error).error_type = "Assertion failed"
                     /\ unwrap(LastCase.error).message = <<"Non-zero exit-code: ", "7">>

\* the indices at which a run of fragments ends
RunEnds(m) == {i \in 1..Len(m) : ends_with(m[i][2], NL) \/ i = Len(m)}
\* the index at which the run that ends at e starts
RunStart(m, e) ==
    LET before == {x \in RunEnds(m) : x < e}
    IN IF before = {} THEN 1 ELSE 1 + CHOOSE x \in before : \A y \in before : y <= x
RECURSIVE Glue(_, _, _)
\* the texts of m[s..e], glued
Glue(m, s, e) == IF s > e THEN <<>> ELSE m[s][2] \o Glue(m, s + 1, e)

\* C9: join emits one line per run of fragments, a run ending at the first
\* fragment that ends with a line terminator or at the last fragment; the
\* line's text is the run's texts glued and its timestamp that of the run's
\* first fragment. Empty input gives empty output, and A, B\n, C at t1, t2,
\* t3 give AB\n at t1 and C at t3.
C9_JoinPartitionsIntoRuns ==
    fn_pc \in {"joined", "rejoined"} =>
        /\ Len(joined) = Cardinality(RunEnds(messages))
        /\ \A e \in RunEnds(messages) :
               LET k == Cardinality({x \in RunEnds(messages) : x <= e})
                   s == RunStart(messages, e)
               IN joined[k] = <<messages[s][1], Glue(messages, s, e)>>
        /\ messages = <<>> => joined = <<>>
        /\ \A t1, t2, t3 \in 1..MaxTs :
               messages = <<<<t1, <<"A">>>>, <<t2, <<"B", NL>>>>, <<t3, <<"C">>>>>> =>
                   joined = <<<<t1, <<"A", "B", NL>>>>, <<t3, <<"C">>>>>>

\* C9 witness: the fragments A, B\n, C at 1, 2, 3 have been joined
C9_Witness ==
    /\ fn_pc = "joined"
    /\ messages = <<<<1, <<"A">>>>, <<2, <<"B", NL>>>>, <<3, <<"C">>>>>>
    /\ joined = <<<<1, <<"A", "B", NL>>>>, <<3, <<"C">>>>>>

AllTerminated(m) == \A i \in 1..Len(m) : ends_with(m[i][2], NL)

\* C10: where every fragment of the input ends with a line terminator, the
\* output of join has the length of the input and its i-th line is the i-th
\* fragment, and join of that output is the output again.
C10_JoinKeepsTerminatedLines ==
    (fn_pc \in {"joined", "rejoined"} /\ AllTerminated(messages)) =>
        /\ Len(joined) = Len(messages)
        /\ \A i \in 1..Len(messages) : joined[i] = messages[i]
        /\ fn_pc = "rejoined" => rejoined = joined

\* C10 witness: two or more terminated fragments, joined twice
C10_Witness ==
    /\ fn_pc = "rejoined"
    /\ Len(messages) >= 2 /\ AllTerminated(messages)
    /\ messages[1] # messages[2]
    /\ rejoined = messages

\* C11: merge returns the fragments of stdout followed by stderr in the
\* order (timestamp, index in the concatenation): the fragment at index i of
\* the concatenation is at the position that counts the fragments before it
\* in that order, so none is added or lost; the timestamps of the output
\* never decrease, and fragments with equal timestamps keep their order, the
\* stdout fragment before the stderr fragment.
C11_MergeIsStableSort ==
    fn_pc = "merged" =>
        LET cat == messages \o messages2
            Before(j, i) == cat[j][1] < cat[i][1] \/ (cat[j][1] = cat[i][1] /\ j < i)
            Rank(i) == 1 + Cardinality({j \in 1..Len(cat) : Before(j, i)})
        IN /\ Len(merged) = Len(cat)
           /\ \A i \in 1..Len(cat) : merged[Rank(i)] = cat[i]
           /\ \A k \in 1..(Len(merged) - 1) : merged[k][1] <= merged[k + 1][1]
           /\ \A t \in 1..MaxTs :
                  (messages = <<<<t, <<"x", "1">>>>>> /\ messages2 = <<<<t, <<"y", "1">>>>>>)
                      => merged = <<<<t, <<"x", "1">>>>, <<t, <<"y", "1">>>>>>

\* C11 witness: a stdout and a stderr fragment with the same timestamp, and a
\* stdout fragment that is earlier and comes after them, have been merged
C11_Witness ==
    /\ fn_pc = "merged"
    /\ messages = <<<<2, <<"x", "1">>>>, <<1, <<"x", "2">>>>>>
    /\ messages2 = <<<<2, <<"y", "1">>>>>>
    /\ merged = <<<<1, <<"x", "2">>>>, <<2, <<"x", "1">>>>, <<2, <<"y", "1">>>>>>

\* C12 as stated: run with no scripts, the tool emits a report with a test
\* count of zero, no errors and no failures, and finishes without error.
C12_EmptyRunReportsZero ==
    (pc = "exited" /\ scripts = <<>>) =>
        /\ tool_status = "ok"
        /\ report # None
        /\ unwrap(report).tests = 0
        /\ unwrap(report).errors = 0
        /\ unwrap(report).failures = 0

\* C12 amended: run with no scripts, the tool finishes without error and
\* emits no report at all; nothing was counted.
C12_EmptyRunNoReport ==
    (pc = "exited" /\ scripts = <<>>) =>
        /\ tool_status = "ok"
        /\ report = None
        /\ testcases = <<>> /\ error_count = 0 /\ failure_count = 0

\* C12 witness: the tool has terminated on an empty list of scripts
C12_Witness == pc = "exited" /\ scripts = <<>> /\ tool_status = "ok"

\* the lines the capture has taken out of the pipe of a stream
TakenFrom(s) == Len(written[s]) - Len(pipe[s])

\* C13: a line read from a stream is echoed and appended at once: wherever
\* the capture waits for a stream to deliver data or to close, every line it
\* has read so far is in the fragment sequence of its stream; none is held
\* back, read and neither echoed nor appended.
C13_CapturedBeforeNextWait ==
    (\E s \in Streams : WaitsOn(s)) =>
        /\ Len(stdout_vector) = TakenFrom("stdout")
        /\ Len(stderr_vector) = TakenFrom("stderr")

\* the fragments captured from a stream so far
VectorOf(s) == IF s = "stdout" THEN stdout_vector ELSE stderr_vector

\* C14: the timestamp of a captured fragment is the clock at the moment its
\* read completed, so it is never earlier than the instant at which the child
\* wrote the line.
C14_TimestampNotBeforeWrite ==
    pc \in {"rd_out", "rd_err", "wait"} =>
        \A s \in Streams : \A i \in 1..Len(VectorOf(s)) :
            VectorOf(s)[i][1] >= wrote_at[s][i]

\* the child processes of the run that are alive
LiveChildren == orphans + (IF child_alive THEN 1 ELSE 0)

\* C15: the scripts run strictly one after the other: at most one child
\* process is alive in any state, also after a capture that ended with a
\* read error.
C15_AtMostOneChildAlive == LiveChildren <= 1

\* the capture of the script that ended last was ended by a read error
LastReadError == HasLast /\ scripts[LastDone] = "run" /\ HasInvalid(written)

Range(q) == {q[i] : i \in 1..Len(q)}

\* C16: a read error in the capture of a script ends it with an error and no
\* partial result: the test case has the kind "IO error" and an empty body,
\* no fragment captured before the error is in the pass-through text of the
\* run, the read is not tried again (the loop of main has moved past the
\* script, no read is pending) and main goes on with the next script: it has
\* not returned an error, unless at a later script, one whose path is missing.
C16_ReadErrorNoPartialResult ==
    LastReadError =>
        /\ LastCase.error # None
        /\ unwrap(LastCase.error).error_type = "IO error"
        /\ unwrap(LastCase.error).body = <<>>
        /\ Range(stdout_vector) \cap Range(stdout_messages) = {}
        /\ Range(stderr_vector) \cap Range(stderr_messages) = {}
        /\ stdout_line = None /\ stderr_line = None /\ handle = "none"
        /\ tool_status = "err" => (idx <= Len(scripts) /\ scripts[idx] = "missing")

\* C16 witness: the read error came after fragments of both streams had been
\* captured, and a script follows
C16_Witness ==
    /\ LastReadError /\ pc = "for" /\ idx <= Len(scripts)
    /\ stdout_vector # <<>> /\ stderr_vector # <<>>
    /\ stdout_messages = <<>> /\ stderr_messages = <<>>


\* the line a fragment was read from, and the line read and not yet appended
LineOf(frag) == frag[2] \o <<NL>>
InFlight(s) ==
    LET line == IF s = "stdout" THEN stdout_line ELSE stderr_line
    IN IF line # None THEN <<unwrap(line) \o <<NL>>>> ELSE <<>>
Taken(s) == [i \in 1..Len(VectorOf(s)) |-> LineOf(VectorOf(s)[i])] \o InFlight(s)
ReturnedOk ==
    /\ HasLast /\ scripts[LastDone] = "run"
    /\ (LastCase.error = None \/ unwrap(LastCase.error).error_type # "IO error")

\* C17: within one stream the fragments are exactly the lines the child wrote
\* to it, in the order written: all through a capture the fragments, the line
\* just read and the lines still in the pipe make up what was written, and
\* the sequence a capture returns is the whole of it, nothing lost, doubled
\* or out of order, whatever the interleaving of the writes.
C17_FragmentsAreLinesWritten ==
    /\ pc \in {"rd_out", "rd_err", "wait"} =>
           \A s \in Streams : Taken(s) \o pipe[s] = written[s]
    /\ ReturnedOk => \A s \in Streams : Taken(s) = written[s]

\* a capture has returned the lines of a child that wrote to stdout, then to
\* stderr, then to stdout again
C17_Witness ==
    /\ ReturnedOk
    /\ Len(wrote_at.stdout) = 2 /\ Len(wrote_at.stderr) = 1
    /\ wrote_at.stdout[1] < wrote_at.stderr[1]
    /\ wrote_at.stderr[1] < wrote_at.stdout[2]
    /\ Len(stdout_vector) = 2 /\ Len(stderr_vector) = 1


\* C18: the exit wait is in flight from before the first read and all through
\* the draining, and completes only once the child has exited, with the
\* child's status; a capture has returned a result only with both streams at
\* end-of-stream and the wait completed, and the test record is the one of
\* the child's actual exit status.
C18_ExitObservedAfterDrain ==
    /\ pc \in {"rd_out", "rd_err", "wait"} => handle \in {"pending", "ready"}
    /\ handle = "ready" =>
           ~child_alive /\ child_status # None /\ handle_output = child_status
    /\ ReturnedOk =>
           /\ AtEof("stdout") /\ AtEof("stderr")
           /\ handle = "ready"
           /\ LET es == unwrap(child_status)
              IN /\ LastCase.error # None <=> BadExit(es)
                 /\ LastCase.error # None =>
                        unwrap(LastCase.error).message = ExitMessage(es)

\* a capture has returned for a child that wrote to both streams and exited
\* with code 7
C18_Witness ==
    /\ ReturnedOk
    /\ child_status = Some([signal |-> FALSE, code |-> 7])
    /\ stdout_vector # <<>> /\ stderr_vector # <<>>


\* the instant run_script was called for the script done last: `duration` is
\* start.elapsed() at that instant
CalledAt == start + duration

\* C19: the time in a script's test record is the duration of its
\* invocation on the clock of the run, the instant run_script returned minus
\* the instant it was called, whatever the time earlier scripts took.
C19_TimeIsInvocationDuration ==
    (HasLast /\ scripts[LastDone] = "run") => LastCase.time = clock - CalledAt


\* the records of a report whose failure is of a kind, and those with a failure
RecordsOfKind(r, kind) ==
    {i \in 1..Len(r.testcases) :
        /\ r.testcases[i].error # None
        /\ unwrap(r.testcases[i].error).error_type = kind}
RecordsFailed(r) == {i \in 1..Len(r.testcases) : r.testcases[i].error # None}

\* C20: in an emitted report there is one record per script, in the order
\* of invocation, `tests` is the number of records, `errors` the number of
\* records of kind "IO error", `failures` the number of records of kind
\* "Assertion failed", and errors + failures the number of records that have
\* a failure.
C20_ReportCountsMatchRecords ==
    report # None =>
        LET r == unwrap(report)
        IN /\ Len(r.testcases) = Len(scripts)
           /\ \A i \in 1..Len(r.testcases) : r.testcases[i].name = i
           /\ r.tests = Len(r.testcases)
           /\ r.errors = Cardinality(RecordsOfKind(r, "IO error"))
           /\ r.failures = Cardinality(RecordsOfKind(r, "Assertion failed"))
           /\ r.errors + r.failures = Cardinality(RecordsFailed(r))

\* a report of a run with one record of each kind
C20_Witness ==
    /\ report # None
    /\ unwrap(report).errors = 1 /\ unwrap(report).failures = 1
    /\ Len(unwrap(report).testcases) = 2

=============================================================================
